---- MODULE Spec2Model ----
(***************************************************************************)
(* CCSeva: the menu-bar application (src/main.ts, class CCSevaApp) and the *)
(* z.ai data service (src/src/services/zaiService.ts, class ZAIService).   *)
(*                                                                         *)
(* One action of the model is one JavaScript macrotask: a timer callback,  *)
(* an IPC handler invocation or the arrival of an HTTP response, together  *)
(* with every promise continuation that runs before the event loop takes   *)
(* the next macrotask.  A getUsageStats call that returns without awaiting *)
(* the network therefore completes inside the action that made it.         *)
(***************************************************************************)
EXTENDS Integers, Sequences, FiniteSets, Bags, TLC

(***************************************************************************)
(* Bounds of the model.                                                    *)
(***************************************************************************)
\* number of asynchronous operations that may be suspended at the same time
MaxTasks == 2
\* number of asynchronous operations that are suspended in a behaviour
MaxCalls == 2
\* number of clock steps; one step is half of CACHE_DURATION
MaxTicks == 2

(***************************************************************************)
(* Program constants.                                                      *)
(***************************************************************************)
CACHE_DURATION == 30000
MockTokensUsed == 25000
MockTokenLimit == 40000000
ProLimit == 7000
Max5Limit == 35000
Max20Limit == 140000
CriticalPct == 90
WarningPct == 70

\* percentages are kept as integers, in units of 1/PctScale percent
PctScale == 10 ^ 4
\* one clock step, in milliseconds
TickMs == CACHE_DURATION \div 2
\* Date.now() when the application starts: any value past CACHE_DURATION
StartTime == 2 * CACHE_DURATION

None == <<>>
Some(x) == <<x>>

(***************************************************************************)
(* What the two endpoints can answer.                                      *)
(***************************************************************************)
\* ZaiQuotaLimit entries of type TOKENS_LIMIT.  The second has a remaining and
\* a percentage that are not derived from usage and currentValue.
QuotaLimits ==
  { [type |-> "TOKENS_LIMIT", usage |-> 40000, currentValue |-> 38000,
     remaining |-> 2000, percentage |-> 95 * PctScale],
    [type |-> "TOKENS_LIMIT", usage |-> 1000, currentValue |-> 750,
     remaining |-> 300, percentage |-> 70 * PctScale] }

TimeLimit ==
  [type |-> "TIME_LIMIT", usage |-> 300, currentValue |-> 0,
   remaining |-> 300, percentage |-> 0]

\* data.limits of a quota body: absent, or a list of limit entries
LimitLists ==
  {None, Some(<<>>), Some(<<TimeLimit>>)}
    \cup { Some(<<TimeLimit, l>>) : l \in QuotaLimits }
    \cup { Some(<<l, TimeLimit>>) : l \in QuotaLimits }

\* an HTTP exchange: the connection fails, or a status arrives, and for an OK
\* status a body that parses as JSON or does not
HttpStatuses == {200, 401, 403, 429, 500}

QuotaReplies ==
  {[net |-> "error"]}
    \cup { [net |-> "ok", status |-> s] : s \in HttpStatuses \ {200} }
    \cup {[net |-> "ok", status |-> 200, json |-> FALSE]}
    \cup { [net |-> "ok", status |-> 200, json |-> TRUE, success |-> b, limits |-> ls] :
             b \in BOOLEAN, ls \in LimitLists }

\* data of a model-usage body: hourly time stamps <<day, hour>> and the total
ModelUsageData ==
  { [totalTokensUsage |-> 0, x_time |-> <<>>],
    [totalTokensUsage |-> 4800, x_time |-> << <<1, 22>>, <<1, 23>>, <<2, 0>> >>] }

ModelReplies ==
  {[net |-> "error"]}
    \cup { [net |-> "ok", status |-> s] : s \in HttpStatuses \ {200} }
    \cup {[net |-> "ok", status |-> 200, json |-> FALSE]}
    \cup { [net |-> "ok", status |-> 200, json |-> TRUE, success |-> b, data |-> d] :
             b \in BOOLEAN, d \in {None} \cup { Some(x) : x \in ModelUsageData } }

(***************************************************************************)
(* ZAIService: the pure part.                                              *)
(***************************************************************************)
Failed(why) == <<"fail", why>>
Ok(v) == <<"ok", v>>

\* the error thrown for a response that is not OK
HttpError(status) ==
  IF status = 401 \/ status = 403 THEN Failed("auth")
  ELSE IF status = 429 THEN Failed("rate")
  ELSE Failed("status")

\* Array.prototype.find: the first entry of type TOKENS_LIMIT, if any
RECURSIVE FindTokensLimit(_)
FindTokensLimit(ls) ==
  IF ls = <<>> THEN None
  ELSE IF Head(ls).type = "TOKENS_LIMIT" THEN Some(Head(ls))
  ELSE FindTokensLimit(Tail(ls))

\* fetchQuotaLimit, from the reply on: the TOKENS_LIMIT entry or the error
FetchQuotaLimit(reply) ==
  IF reply.net = "error" THEN Failed("network")
  ELSE IF reply.status # 200 THEN HttpError(reply.status)
  ELSE IF ~reply.json THEN Failed("parse")
  ELSE IF ~reply.success \/ reply.limits = None THEN Failed("invalid")
  ELSE IF FindTokensLimit(reply.limits[1]) = None THEN Failed("notfound")
  ELSE Ok(FindTokensLimit(reply.limits[1])[1])

\* fetchModelUsage, from the reply on: the body's data or the error
FetchModelUsage(reply) ==
  IF reply.net = "error" THEN Failed("network")
  ELSE IF reply.status # 200 THEN HttpError(reply.status)
  ELSE IF ~reply.json THEN Failed("parse")
  ELSE IF ~reply.success \/ reply.data = None THEN Failed("invalid")
  ELSE Ok(reply.data[1])

\* Math.round(a / b) for a >= 0, b > 0
RoundDiv(a, b) == (2 * a + b) \div (2 * b)

Max(a, b) == IF a >= b THEN a ELSE b

\* calculateVelocityFromModelUsage: current = totalTokens / max(1, hours / 24)
CalculateVelocityFromModelUsage(mu) ==
  LET hours == Len(mu.x_time)
      total == mu.totalTokensUsage
      some == hours > 0 /\ total > 0
      \* total / max(1, hours/24) = total * 24 / max(24, hours)
      num == IF some THEN total * 24 ELSE 0
      den == Max(24, hours)
  IN [current |-> RoundDiv(num, den),
      average24h |-> RoundDiv(num, den),
      average7d |-> RoundDiv(num * 8, den * 10),
      trend |-> "stable",
      trendPercent |-> 0,
      peakHour |-> 14,
      isAccelerating |-> FALSE]

\* the days of x_time, each once, in increasing order
DaysOf(xs) == { xs[i][1] : i \in DOMAIN xs }

RECURSIVE SortedDays(_)
SortedDays(ds) ==
  IF ds = {} THEN <<>>
  ELSE LET d == CHOOSE x \in ds : \A y \in ds : x <= y
       IN <<d>> \o SortedDays(ds \ {d})

\* a mapping that would price the tokens of a day
MapHourlyToDailyUsagePriced(mu) ==
  LET days == SortedDays(DaysOf(mu.x_time))
      total == mu.totalTokensUsage
      perDay == IF total > 0 /\ days # <<>> THEN total \div Len(days) ELSE 0
  IN [i \in DOMAIN days |->
        [date |-> days[i], totalTokens |-> perDay, totalCost |-> perDay \div 1000]]

\* mapHourlyToDailyUsage: one entry per day, the total spread evenly
MapHourlyToDailyUsage(mu) ==
  LET days == SortedDays(DaysOf(mu.x_time))
      total == mu.totalTokensUsage
      perDay == IF total > 0 /\ days # <<>> THEN total \div Len(days) ELSE 0
  IN [i \in DOMAIN days |->
        [date |-> days[i], totalTokens |-> perDay, totalCost |-> 0]]

\* the day of "now", counted like the days of x_time
Today == StartTime \div CACHE_DURATION

GetEmptyDailyUsage == [date |-> Today, totalTokens |-> 0, totalCost |-> 0]

\* a plan detection that would put a limit equal to a threshold in the next plan
DetectPlanFromLimitStrict(tokenLimit) ==
  IF tokenLimit < ProLimit THEN "Pro"
  ELSE IF tokenLimit < Max5Limit THEN "Max5"
  ELSE IF tokenLimit < Max20Limit THEN "Max20"
  ELSE "Custom"

\* detectPlanFromLimit
DetectPlanFromLimit(tokenLimit) ==
  IF tokenLimit <= ProLimit THEN "Pro"
  ELSE IF tokenLimit <= Max5Limit THEN "Max5"
  ELSE IF tokenLimit <= Max20Limit THEN "Max20"
  ELSE "Custom"

\* a mapping that would derive the remaining tokens from the limit and the usage
QuotaRemainingDerived(quota) == quota.usage - quota.currentValue

\* mapZaiToUsageStats, tokensRemaining: the response's field
QuotaRemaining(quota) == quota.remaining

\* a mapping that would derive the percentage from the limit and the usage
QuotaPercentageDerived(quota) == (quota.currentValue * PctScale) \div (quota.usage \div 100)

\* mapZaiToUsageStats, percentageUsed: the response's field
QuotaPercentage(quota) == quota.percentage

\* mapZaiToUsageStats: the four quota numbers are taken from the response
MapZaiToUsageStats(quota, mu) ==
  LET velocity == CalculateVelocityFromModelUsage(mu)
      daily == MapHourlyToDailyUsage(mu)
      todays == SelectSeq(daily, LAMBDA d : d.date = Today)
  IN [today |-> IF todays # <<>> THEN todays[1] ELSE GetEmptyDailyUsage,
      thisWeek |-> SelectSeq(daily, LAMBDA d : d.date >= Today - 7),
      thisMonth |-> SelectSeq(daily, LAMBDA d : d.date >= Today - 30),
      burnRate |-> velocity.current,
      velocity |-> velocity,
      currentPlan |-> DetectPlanFromLimit(quota.usage),
      tokenLimit |-> quota.usage,
      tokensUsed |-> quota.currentValue,
      tokensRemaining |-> QuotaRemaining(quota),
      percentageUsed |-> QuotaPercentage(quota)]

\* generateMockDailyData; tok stands for the random token counts
GenerateMockDailyData(days, tok) ==
  [i \in 1 .. days |->
     [date |-> Today - (days - i), totalTokens |-> tok, totalCost |-> 0]]

\* the values Math.floor(Math.random() * 2000) + 500 is drawn from here
MockTokens == {500, 2499}

\* getMockStats
GetMockStats(tok) ==
  [today |-> [date |-> Today, totalTokens |-> 1200, totalCost |-> 0],
   thisWeek |-> GenerateMockDailyData(7, tok),
   thisMonth |-> GenerateMockDailyData(30, tok),
   burnRate |-> 120,
   velocity |-> [current |-> 120, average24h |-> 100, average7d |-> 90,
                 trend |-> "increasing", trendPercent |-> 20, peakHour |-> 14,
                 isAccelerating |-> TRUE],
   currentPlan |-> "Custom",
   tokenLimit |-> MockTokenLimit,
   tokensUsed |-> MockTokensUsed,
   tokensRemaining |-> MockTokenLimit - MockTokensUsed,
   \* (tokensUsed / tokenLimit) * 100, exact here: the limit is a multiple of 100
   percentageUsed |-> (MockTokensUsed * PctScale) \div (MockTokenLimit \div 100)]

\* a status that would change only above a threshold
GetUsageStatusStrict(percentageUsed) ==
  IF percentageUsed > CriticalPct * PctScale THEN "critical"
  ELSE IF percentageUsed > WarningPct * PctScale THEN "warning"
  ELSE "safe"

\* getUsageStatus
GetUsageStatus(percentageUsed) ==
  IF percentageUsed >= CriticalPct * PctScale THEN "critical"
  ELSE IF percentageUsed >= WarningPct * PctScale THEN "warning"
  ELSE "safe"

\* getMenuBarData, from the stats on; source is a history field naming the
\* service that made the data
ZaiMenuBarData(stats) ==
  [source |-> "zai",
   tokensUsed |-> stats.tokensUsed,
   tokenLimit |-> stats.tokenLimit,
   percentageUsed |-> stats.percentageUsed,
   status |-> GetUsageStatus(stats.percentageUsed),
   cost |-> 0]

(***************************************************************************)
(* CCUsageService is not part of the sources at hand: its calls are        *)
(* asynchronous file reads that resolve with data of the local logs or     *)
(* reject.                                                                 *)
(***************************************************************************)
CcusageMenuBarData ==
  [source |-> "ccusage", tokensUsed |-> 3500, tokenLimit |-> 7000,
   percentageUsed |-> 50 * PctScale, status |-> "safe", cost |-> 125]

CcusageStats ==
  [today |-> [date |-> Today, totalTokens |-> 3500, totalCost |-> 125],
   currentPlan |-> "Pro", tokenLimit |-> 7000, tokensUsed |-> 3500,
   tokensRemaining |-> 3500, percentageUsed |-> 50 * PctScale]

(***************************************************************************)
(* State.                                                                  *)
(***************************************************************************)
VARIABLES
  clock,                \* Date.now()
  apiKey,               \* ZAIService.apiKey is not empty
  cachedStats,          \* ZAIService.cachedStats
  lastUpdate,           \* ZAIService.lastUpdate
  lastQuotaData,        \* ZAIService.lastQuotaData
  lastModelUsageData,   \* ZAIService.lastModelUsageData
  dataSource,           \* CCSevaApp.dataSource
  cachedMenuBarData,    \* CCSevaApp.cachedMenuBarData
  menuBarDisplayMode,   \* CCSevaApp.menuBarDisplayMode
  menuBarCostSource,    \* CCSevaApp.menuBarCostSource
  showPercentage,       \* CCSevaApp.showPercentage
  displayInterval,      \* CCSevaApp.displayInterval is set
  trayTitle,            \* the title last given to the tray
  phase,                \* "constructed" until initialize() has run
  startupTimer,         \* the 1 s timeout of startUsagePolling is pending
  settingsFile,         \* the content of ~/.ccseva/settings.json
  tasks,                \* the suspended asynchronous operations
  ev,                   \* history: what the last step sent and returned
  started,              \* history: the number of operations suspended so far
  forced                \* history: updateConfiguration has run and no
                        \* getUsageStats call of the z.ai service has begun since

zaiVars == <<apiKey, cachedStats, lastUpdate, lastQuotaData, lastModelUsageData>>
appVars == <<dataSource, cachedMenuBarData, menuBarDisplayMode, menuBarCostSource,
             showPercentage, displayInterval, trayTitle, phase, startupTimer>>
vars == <<clock, zaiVars, appVars, settingsFile, tasks, ev, started, forced>>

DataSources == {"ccusage", "zai"}
DisplayModes == {"percentage", "cost", "alternate"}
CostSources == {"today", "sessionWindow"}

Pending == <<"pending">>
NoRequest == <<"none">>

\* a suspended operation: what awaits (op), the service called, the Date.now()
\* its getUsageStats call read, the two requests, and the dataSource of the
\* save-settings call that waits for a tray update (next)
NewTask(op, svc, now, next) ==
  [op |-> op, svc |-> svc, now |-> IF svc = "zai" THEN now ELSE 0,
   q |-> IF svc = "zai" THEN Pending ELSE NoRequest,
   m |-> IF svc = "zai" THEN Pending ELSE NoRequest,
   next |-> next]

\* the history of a step: the handler or event (op), the number of requests
\* sent, and, in order, what each getUsageStats call that returned in the
\* step returned and on which path
Ev(op, issued, rets) == [op |-> op, issued |-> issued, rets |-> rets]
NoEv == Ev("none", 0, <<>>)
Ret(how, got) == [how |-> how, got |-> got]

\* a getUsageStats call of the z.ai service has begun in the step of history e:
\* it has sent its requests or returned at once
CallStarted(e) ==
  e.issued > 0 \/ \E i \in DOMAIN e.rets : e.rets[i].how \in {"cache", "mock"}

\* the state after the constructors of ZAIService and CCSevaApp
InitApp(keys) ==
  /\ clock = StartTime
  /\ apiKey \in keys
  /\ cachedStats = None
  /\ lastUpdate = 0
  /\ lastQuotaData = None
  /\ lastModelUsageData = None
  /\ dataSource = "ccusage"
  /\ cachedMenuBarData = None
  /\ menuBarDisplayMode = "alternate"
  /\ menuBarCostSource = "today"
  /\ showPercentage = TRUE
  /\ displayInterval = FALSE
  /\ trayTitle = <<"none">>
  /\ phase = "constructed"
  /\ startupTimer = FALSE
  /\ tasks = EmptyBag
  /\ ev = NoEv
  /\ started = 0
  /\ forced = FALSE

(***************************************************************************)
(* ZAIService.getUsageStats, up to its await.                              *)
(***************************************************************************)
\* a cache test that would still hold at exactly CACHE_DURATION
CacheIsFreshInclusive(cs, lu, now) == cs # None /\ now - lu <= CACHE_DURATION

\* the cache test of getUsageStats
CacheIsFresh(cs, lu, now) == cs # None /\ now - lu < CACHE_DURATION

\* lines 55-72: the cached stats, the mock stats without a key, or the two
\* requests sent and the call suspended
BeginGetUsageStats(z, now, tok) ==
  IF CacheIsFresh(z.cs, z.lu, now) THEN Ret("cache", Ok(z.cs[1]))
  ELSE IF ~z.key THEN Ret("mock", Ok(GetMockStats(tok)))
  ELSE Ret("pending", None)

\* the random daily token counts a call reading z may put into mock stats
MockTokensOf(z) == IF z.key /\ z.cs # None THEN {500} ELSE MockTokens

\* a catch block that would rethrow
CatchRethrows(cs, tok) == Failed("error")

\* a catch block that would answer with mock stats whatever is cached
CatchMockOnly(cs, tok) == Ok(GetMockStats(tok))

\* lines 85-96: the catch block
CatchFetchError(cs, tok) ==
  IF cs # None THEN Ok(cs[1]) ELSE Ok(GetMockStats(tok))

\* the service state a step reads: cachedStats, lastUpdate, apiKey
Zai(cs, lu, key) == [cs |-> cs, lu |-> lu, key |-> key]

(***************************************************************************)
(* CCSevaApp: the tray.                                                    *)
(***************************************************************************)
PercentageTitle(menu) == <<"pct", RoundDiv(menu.percentageUsed, PctScale)>>
CostTitle(menu) == <<"cost", menu.cost>>

\* a display that would show the percentage at every tick of the alternate mode
UpdateTrayDisplayNoToggle(menu, mode, showPct, title) ==
  IF menu = None THEN title
  ELSE IF mode = "cost" THEN CostTitle(menu[1])
  ELSE PercentageTitle(menu[1])

\* updateTrayDisplay: the title for the cached data in the current mode
UpdateTrayDisplay(menu, mode, showPct, title) ==
  IF menu = None THEN title
  ELSE IF mode = "percentage" THEN PercentageTitle(menu[1])
  ELSE IF mode = "cost" THEN CostTitle(menu[1])
  ELSE IF showPct THEN PercentageTitle(menu[1])
  ELSE CostTitle(menu[1])

\* getActiveService
GetActiveService(ds) == IF ds = "zai" THEN "zai" ELSE "ccusage"

\* updateTrayTitle after its await: w holds dataSource, cachedMenuBarData and
\* the tray title; got is what getMenuBarData resolved or rejected with
FinishUpdateTrayTitle(w, got, mode, showPct) ==
  IF got[1] = "ok"
  THEN [w EXCEPT !.menu = Some(got[2]),
                 !.title = UpdateTrayDisplay(Some(got[2]), mode, showPct, w.title)]
  ELSE [w EXCEPT !.menu = None, !.title = <<"dash">>]

\* ZAIService.getMenuBarData after its await on getUsageStats
GetMenuBarData(svc, got) ==
  IF svc = "zai" /\ got[1] = "ok" THEN Ok(ZaiMenuBarData(got[2])) ELSE got

\* the outcome of the part of a step that updates the tray: the application
\* state w, the operation left suspended, the requests sent, the returns
Outcome(w, pend, issued, rets) ==
  [w |-> w, pend |-> pend, issued |-> issued, rets |-> rets]

\* updateTrayTitle up to its await: it finishes at once when the z.ai service
\* answers from its cache or with mock stats, and is suspended otherwise
UpdateTrayTitle(w, next, mode, showPct, z, now, tok) ==
  LET svc == GetActiveService(w.ds)
      begun == BeginGetUsageStats(z, now, tok)
  IN IF svc # "zai"
     THEN Outcome(w, Some(NewTask("tray", svc, now, next)), 0, <<>>)
     ELSE IF begun.how = "pending"
     THEN Outcome(w, Some(NewTask("tray", svc, now, next)), 2, <<>>)
     ELSE Outcome(FinishUpdateTrayTitle(w, GetMenuBarData(svc, begun.got), mode, showPct),
                  None, 0, <<begun>>)

\* save-settings, lines 280-285: the data source change
HandleDataSourceChange(w, next, mode, showPct, z, now, tok) ==
  IF next # None /\ next[1] # w.ds
  THEN UpdateTrayTitle([w EXCEPT !.ds = next[1]], None, mode, showPct, z, now, tok)
  ELSE Outcome(w, None, 0, <<>>)

\* what follows a finished updateTrayTitle: a save-settings handler that
\* awaited it for the cost source goes on to the data source
AfterUpdateTrayTitle(r, next, mode, showPct, z, now, tok) ==
  IF r.pend = None
  THEN LET r2 == HandleDataSourceChange(r.w, next, mode, showPct, z, now, tok)
       IN Outcome(r2.w, r2.pend, r.issued + r2.issued, r.rets \o r2.rets)
  ELSE r

\* updateTrayTitle and, when it finishes at once, what follows it
RunUpdateTrayTitle(w, next, mode, showPct, z, now, tok) ==
  AfterUpdateTrayTitle(UpdateTrayTitle(w, next, mode, showPct, z, now, tok),
                       next, mode, showPct, z, now, tok)

World == [ds |-> dataSource, menu |-> cachedMenuBarData, title |-> trayTitle]

\* a call that would send its requests a second time
SuspendTwice(ts, pend) ==
  IF pend = None THEN ts ELSE ts (+) SetToBag({pend[1]}) (+) SetToBag({pend[1]})

\* the suspended operations ts and the operation pend, if any
Suspend(ts, pend) == IF pend = None THEN ts ELSE ts (+) SetToBag({pend[1]})

CanSuspend(ts, pend) ==
  pend = None \/ (BagCardinality(ts) < MaxTasks /\ started < MaxCalls)

\* the effect of a step on the application: r is the outcome of its tray updates
Apply(r, ts) ==
  /\ CanSuspend(ts, r.pend)
  /\ tasks' = Suspend(ts, r.pend)
  /\ started' = IF r.pend = None THEN started ELSE started + 1
  /\ dataSource' = r.w.ds
  /\ cachedMenuBarData' = r.w.menu
  /\ trayTitle' = r.w.title

appRest == <<menuBarDisplayMode, menuBarCostSource, showPercentage, displayInterval,
             phase, startupTimer>>

(***************************************************************************)
(* Time, and CCSevaApp's start and timers.                                 *)
(***************************************************************************)
Tick ==
  /\ clock < StartTime + MaxTicks * TickMs
  /\ clock' = clock + TickMs
  /\ ev' = NoEv
  /\ UNCHANGED <<zaiVars, appVars, settingsFile, tasks, started, forced>>

(***************************************************************************)
(* SettingsService and the settings file.                                  *)
(***************************************************************************)
\* the fields of AppSettings that the model keeps
FieldNames == {"dataSource", "menuBarDisplayMode", "menuBarCostSource", "plan", "resetHour"}

Plans == {"auto", "Pro", "Max5", "Max20", "Custom"}

\* the file: it is missing, it cannot be read, it does not parse, or it holds
\* a JSON object; the object has some of the fields, each null (None) or a
\* value.  JSON that is not an object spreads no field, like the object {}.
Missing == <<"missing">>
Unreadable == <<"unreadable">>
Unparsable == <<"unparsable">>
JsonFile(obj) == <<"json", obj>>

\* defaultSettings
DefaultSettings ==
  [dataSource |-> Some("ccusage"), menuBarDisplayMode |-> Some("alternate"),
   menuBarCostSource |-> Some("today"), plan |-> Some("auto"), resetHour |-> Some(0)]

\* a loadSettings that would return the parsed object as it is
LoadSettingsUnmerged(file) ==
  IF file[1] = "json"
  THEN Ok([k \in FieldNames |-> IF k \in DOMAIN file[2] THEN file[2][k] ELSE None])
  ELSE Ok(DefaultSettings)

\* loadSettings: { ...defaultSettings, ...settings }, or the defaults
LoadSettings(file) ==
  IF file[1] = "json"
  THEN Ok([k \in FieldNames |->
             IF k \in DOMAIN file[2] THEN file[2][k] ELSE DefaultSettings[k]])
  ELSE Ok(DefaultSettings)

\* the field k is given in the settings passed to save-settings
Given(settings, k) == k \in DOMAIN settings /\ settings[k] # None

\* saveSettings: { ...currentSettings, ...settings } is written to the file
SaveSettings(file, settings) ==
  JsonFile([k \in FieldNames |->
              IF Given(settings, k) THEN settings[k] ELSE LoadSettings(file)[2][k]])

\* ZAIService.updateConfiguration
UpdateConfiguration(cs) == None

\* settings as loadSettings resolves with them or as the renderer passes them
\* to save-settings: each field is optional
SettingsInputs(sources, modes, costs) ==
  [dataSource : {None} \cup { Some(d) : d \in sources },
   menuBarDisplayMode : {None} \cup { Some(d) : d \in modes },
   menuBarCostSource : {None} \cup { Some(c) : c \in costs }]

\* x || d
OrElse(x, d) == IF x = None THEN d ELSE x[1]

\* initialize() with the settings loadSettings resolved with: the three
\* fields (x || default), updateConfiguration, createTray (the first updateTrayTitle),
\* startUsagePolling, startDisplayToggle
Initialize(settings) ==
  /\ phase = "constructed"
  /\ LET mode == OrElse(settings.menuBarDisplayMode, "alternate")
         w == [World EXCEPT !.ds = OrElse(settings.dataSource, "ccusage")]
         z == Zai(UpdateConfiguration(cachedStats), lastUpdate, apiKey)
     IN /\ menuBarDisplayMode' = mode
        /\ menuBarCostSource' = OrElse(settings.menuBarCostSource, "today")
        /\ displayInterval' = (mode = "alternate")
        /\ \E tok \in MockTokensOf(z) :
             LET r == RunUpdateTrayTitle(w, None, mode, showPercentage, z, clock, tok)
             IN /\ Apply(r, tasks)
                /\ ev' = Ev("initialize", r.issued, r.rets)
  /\ cachedStats' = UpdateConfiguration(cachedStats)
  /\ phase' = "running"
  /\ startupTimer' = TRUE
  /\ forced' = ~CallStarted(ev')
  /\ UNCHANGED <<clock, settingsFile, apiKey, lastUpdate, lastQuotaData, lastModelUsageData,
                 showPercentage>>

\* a tray update started by a timer
TimerUpdate(op) ==
  /\ \E tok \in MockTokensOf(Zai(cachedStats, lastUpdate, apiKey)) :
       LET r == RunUpdateTrayTitle(World, None, menuBarDisplayMode, showPercentage,
                                   Zai(cachedStats, lastUpdate, apiKey), clock, tok)
       IN /\ Apply(r, tasks)
          /\ ev' = Ev(op, r.issued, r.rets)
  /\ forced' = (forced /\ ~CallStarted(ev'))
  /\ UNCHANGED <<clock, settingsFile, zaiVars, menuBarDisplayMode, menuBarCostSource,
                 showPercentage, displayInterval, phase>>

\* setTimeout(() => this.updateTrayTitle(), 1000)
StartupTimeout ==
  /\ startupTimer
  /\ startupTimer' = FALSE
  /\ TimerUpdate("startup")

\* the setInterval callback of startUsagePolling
PollTick ==
  /\ phase = "running"
  /\ UNCHANGED startupTimer
  /\ TimerUpdate("poll")

\* the setInterval callback of startDisplayToggle
DisplayToggle ==
  /\ displayInterval
  /\ showPercentage' = ~showPercentage
  /\ trayTitle' = UpdateTrayDisplay(cachedMenuBarData, menuBarDisplayMode,
                                    ~showPercentage, trayTitle)
  /\ ev' = NoEv
  /\ UNCHANGED <<clock, settingsFile, zaiVars, dataSource, cachedMenuBarData,
                 menuBarDisplayMode, menuBarCostSource, displayInterval, phase,
                 startupTimer, tasks, started, forced>>

(***************************************************************************)
(* The IPC handlers.                                                       *)
(***************************************************************************)
\* get-usage-stats
IpcGetUsageStats ==
  /\ phase = "running"
  /\ \E tok \in MockTokensOf(Zai(cachedStats, lastUpdate, apiKey)) :
       LET svc == GetActiveService(dataSource)
           begun == BeginGetUsageStats(Zai(cachedStats, lastUpdate, apiKey), clock, tok)
       IN IF svc = "zai" /\ begun.how # "pending"
          THEN /\ ev' = Ev("get-usage-stats", 0, <<begun>>)
               /\ UNCHANGED <<tasks, started>>
          ELSE LET pend == Some(NewTask("stats", svc, clock, None))
               IN /\ CanSuspend(tasks, pend)
                  /\ tasks' = Suspend(tasks, pend)
                  /\ started' = started + 1
                  /\ ev' = Ev("get-usage-stats", IF svc = "zai" THEN 2 ELSE 0, <<>>)
  /\ forced' = (forced /\ ~CallStarted(ev'))
  /\ UNCHANGED <<clock, settingsFile, zaiVars, appVars>>

\* refresh-data: getUsageStats of the active service, then updateTrayTitle
IpcRefreshData ==
  /\ phase = "running"
  /\ \E tok \in MockTokensOf(Zai(cachedStats, lastUpdate, apiKey)) :
       LET svc == GetActiveService(dataSource)
           z == Zai(cachedStats, lastUpdate, apiKey)
           begun == BeginGetUsageStats(z, clock, tok)
       IN IF svc = "zai" /\ begun.how # "pending"
          THEN LET r == RunUpdateTrayTitle(World, None, menuBarDisplayMode,
                                           showPercentage, z, clock, tok)
               IN /\ Apply(r, tasks)
                  /\ ev' = Ev("refresh-data", r.issued, <<begun>> \o r.rets)
          ELSE /\ Apply(Outcome(World, Some(NewTask("refresh", svc, clock, None)), 0, <<>>),
                        tasks)
               /\ ev' = Ev("refresh-data", IF svc = "zai" THEN 2 ELSE 0, <<>>)
  /\ forced' = (forced /\ ~CallStarted(ev'))
  /\ UNCHANGED <<clock, settingsFile, zaiVars, appRest>>

\* save-settings when SettingsService.saveSettings throws: rethrown
IpcSaveSettingsFails ==
  /\ phase = "running"
  /\ ev' = NoEv
  /\ UNCHANGED <<clock, settingsFile, zaiVars, appVars, tasks, started, forced>>

\* save-settings: the file is written, both services get updateConfiguration,
\* then the display mode, the cost source and the data source are handled
IpcSaveSettings(settings) ==
  /\ phase = "running"
  /\ cachedStats' = UpdateConfiguration(cachedStats)
  /\ LET modeChanges == /\ settings.menuBarDisplayMode # None
                        /\ settings.menuBarDisplayMode[1] # menuBarDisplayMode
         mode == IF modeChanges THEN settings.menuBarDisplayMode[1] ELSE menuBarDisplayMode
         costChanges == /\ settings.menuBarCostSource # None
                        /\ settings.menuBarCostSource[1] # menuBarCostSource
         w == [World EXCEPT !.title =
                 IF modeChanges
                 THEN UpdateTrayDisplay(cachedMenuBarData, mode, showPercentage, trayTitle)
                 ELSE trayTitle]
         z == Zai(UpdateConfiguration(cachedStats), lastUpdate, apiKey)
     IN /\ menuBarDisplayMode' = mode
        /\ displayInterval' = IF modeChanges THEN mode = "alternate" ELSE displayInterval
        /\ menuBarCostSource' =
             IF costChanges THEN settings.menuBarCostSource[1] ELSE menuBarCostSource
        /\ \E tok \in MockTokensOf(z) :
             LET r == IF costChanges
                      THEN RunUpdateTrayTitle(w, settings.dataSource, mode,
                                              showPercentage, z, clock, tok)
                      ELSE HandleDataSourceChange(w, settings.dataSource, mode,
                                                  showPercentage, z, clock, tok)
             IN /\ Apply(r, tasks)
                /\ ev' = Ev("save-settings", r.issued, r.rets)
  /\ settingsFile' = SaveSettings(settingsFile, settings)
  /\ forced' = ~CallStarted(ev')
  /\ UNCHANGED <<clock, apiKey, lastUpdate, lastQuotaData, lastModelUsageData,
                 showPercentage, phase, startupTimer>>

(***************************************************************************)
(* The end of an await: an HTTP exchange or a file read finishes, and the  *)
(* operation that awaited it runs on.                                      *)
(***************************************************************************)
Remove(ts, task) == ts (-) SetToBag({task})

\* the operation task goes on with got, the outcome of its service call; z is
\* the service state it finds and rest the request it leaves under way
Continue(task, how, got, rest, z, tok) ==
  LET mode == menuBarDisplayMode
      r == CASE task.op = "stats" -> Outcome(World, None, 0, <<>>)
             [] task.op = "refresh" ->
                  IF got[1] = "ok"
                  THEN RunUpdateTrayTitle(World, None, mode, showPercentage, z, clock, tok)
                  ELSE Outcome(World, None, 0, <<>>)
             [] task.op = "tray" ->
                  AfterUpdateTrayTitle(
                    Outcome(FinishUpdateTrayTitle(World, GetMenuBarData(task.svc, got),
                                                  mode, showPercentage),
                            None, 0, <<>>),
                    task.next, mode, showPercentage, z, clock, tok)
  IN /\ Apply(r, Suspend(Remove(tasks, task), rest))
     /\ ev' = Ev(how, r.issued,
                 (IF task.svc = "zai" THEN <<Ret(how, got)>> ELSE <<>>) \o r.rets)
     /\ forced' = (forced /\ ~CallStarted(ev'))
     /\ UNCHANGED <<clock, settingsFile, apiKey, appRest>>

\* lines 74-84: both requests have succeeded
StoreAndReturn(task, quota, mu) ==
  LET stats == MapZaiToUsageStats(quota, mu)
      z == Zai(Some(stats), task.now, apiKey)
  IN /\ lastQuotaData' = Some(quota)
     /\ lastModelUsageData' = Some(mu)
     /\ cachedStats' = Some(stats)
     /\ lastUpdate' = task.now
     /\ \E tok \in MockTokensOf(z) : Continue(task, "fetched", Ok(stats), None, z, tok)

\* a request whose call has returned through the catch block: it stays under
\* way, its result unused
Unused(which) ==
  [op |-> "unused", svc |-> "zai", now |-> 0,
   q |-> IF which = "q" THEN Pending ELSE NoRequest,
   m |-> IF which = "m" THEN Pending ELSE NoRequest,
   next |-> None]

\* a call that would send the failed request again
AfterCatchRetry(task, which) == Some([task EXCEPT ![which] = Pending])

\* what a call leaves under way when the request which has failed
AfterCatch(task, which) ==
  IF which = "q" /\ task.m = Pending THEN Some(Unused("m"))
  ELSE IF which = "m" /\ task.q = Pending THEN Some(Unused("q"))
  ELSE None

\* a catch block that would stamp the cache with the time of the failed call
CatchAndReturnStamps(task, which) ==
  LET z == Zai(cachedStats, task.now, apiKey)
  IN /\ lastUpdate' = task.now
     /\ UNCHANGED <<cachedStats, lastQuotaData, lastModelUsageData>>
     /\ \E tok \in MockTokensOf(z) :
          Continue(task, "catch", CatchFetchError(cachedStats, tok),
                   AfterCatch(task, which), z, tok)

\* Promise.all rejects with the first error and the catch block answers
CatchAndReturn(task, which) ==
  LET z == Zai(cachedStats, lastUpdate, apiKey)
  IN /\ UNCHANGED <<cachedStats, lastUpdate, lastQuotaData, lastModelUsageData>>
     /\ \E tok \in MockTokensOf(z) :
          Continue(task, "catch", CatchFetchError(cachedStats, tok),
                   AfterCatch(task, which), z, tok)

\* the request which (q: quota, m: model usage) of task ends with got
RequestDone(task, which, got) ==
  LET other == IF which = "q" THEN task.m ELSE task.q
  IN IF task.op = "unused"
     THEN /\ tasks' = Remove(tasks, task)
          /\ ev' = NoEv
          /\ UNCHANGED <<clock, settingsFile, zaiVars, appVars, started, forced>>
     ELSE IF got[1] = "fail"
     THEN CatchAndReturn(task, which)
     ELSE IF other = Pending
     THEN /\ tasks' = Remove(tasks, task) (+) SetToBag({[task EXCEPT ![which] = got]})
          /\ ev' = NoEv
          /\ UNCHANGED <<clock, settingsFile, zaiVars, appVars, started, forced>>
     ELSE StoreAndReturn(task, IF which = "q" THEN got[2] ELSE task.q[2],
                         IF which = "q" THEN task.m[2] ELSE got[2])

\* what fetchQuotaLimit and fetchModelUsage can end with
QuotaOutcomes == { FetchQuotaLimit(reply) : reply \in QuotaReplies }
ModelOutcomes == { FetchModelUsage(reply) : reply \in ModelReplies }

\* the quota request of a suspended call ends
QuotaReply(task, got) ==
  /\ task.q = Pending
  /\ RequestDone(task, "q", got)

\* the model-usage request of a suspended call ends
ModelReply(task, got) ==
  /\ task.m = Pending
  /\ RequestDone(task, "m", got)

\* a call of the ccusage service resolves or rejects
CcusageSettle(task, ok) ==
  /\ task.svc = "ccusage"
  /\ LET z == Zai(cachedStats, lastUpdate, apiKey)
     IN \E tok \in MockTokensOf(z) :
          Continue(task, "ccusage",
                   IF ~ok THEN Failed("ccusage")
                   ELSE IF task.op = "tray" THEN Ok(CcusageMenuBarData)
                   ELSE Ok(CcusageStats),
                   None, z, tok)
  /\ UNCHANGED <<cachedStats, lastUpdate, lastQuotaData, lastModelUsageData>>

(***************************************************************************)
(* Spec: the z.ai service with all its callers, z.ai being the data source *)
(* throughout.                                                             *)
(***************************************************************************)
\* the settings of Spec: z.ai selected, the percentage shown
ZaiSettings ==
  { s \in SettingsInputs({"zai"}, {"percentage"}, {"today"}) :
      s.dataSource # None /\ s.menuBarDisplayMode # None }

\* the file of Spec: every field is stored
ZaiFile ==
  JsonFile([DefaultSettings EXCEPT !.dataSource = Some("zai"),
                                   !.menuBarDisplayMode = Some("percentage")])

Init == InitApp(BOOLEAN) /\ settingsFile = ZaiFile

Next ==
  \/ Tick
  \/ Initialize(LoadSettings(settingsFile)[2])
  \/ StartupTimeout
  \/ PollTick
  \/ IpcGetUsageStats
  \/ IpcRefreshData
  \/ IpcSaveSettingsFails
  \/ \E settings \in ZaiSettings \cup SettingsInputs({"zai"}, {"percentage"}, {"today"}) :
       IpcSaveSettings(settings)
  \/ \E task \in BagToSet(tasks), got \in QuotaOutcomes : QuotaReply(task, got)
  \/ \E task \in BagToSet(tasks), got \in ModelOutcomes : ModelReply(task, got)

Spec == Init /\ [][Next]_vars

(***************************************************************************)
(* SpecSources: the application with both data sources and a key.          *)
(***************************************************************************)
\* the settings of SpecSources: either source, either cost source
SourceSettings ==
  { s \in SettingsInputs(DataSources, {"percentage"}, CostSources) :
      s.menuBarDisplayMode # None }

\* the files of SpecSources
SourceFiles ==
  { JsonFile([DefaultSettings EXCEPT !.dataSource = Some(d),
                                     !.menuBarDisplayMode = Some("percentage"),
                                     !.menuBarCostSource = Some(c)]) :
      d \in DataSources, c \in CostSources }

InitSources == InitApp({TRUE}) /\ settingsFile \in SourceFiles

NextSources ==
  \/ Tick
  \/ Initialize(LoadSettings(settingsFile)[2])
  \/ StartupTimeout
  \/ PollTick
  \/ IpcGetUsageStats
  \/ IpcRefreshData
  \/ IpcSaveSettingsFails
  \/ \E settings \in SourceSettings : IpcSaveSettings(settings)
  \/ \E task \in BagToSet(tasks), got \in QuotaOutcomes : QuotaReply(task, got)
  \/ \E task \in BagToSet(tasks), got \in ModelOutcomes : ModelReply(task, got)
  \/ \E task \in BagToSet(tasks), ok \in BOOLEAN : CcusageSettle(task, ok)

SpecSources == InitSources /\ [][NextSources]_vars


(***************************************************************************)
(* SpecResponses: the z.ai service with quota responses on both sides of   *)
(* the plan and the status thresholds, and a plan in the settings.         *)
(***************************************************************************)
PlanLimits ==
  {1000, ProLimit, ProLimit + 1, Max5Limit, Max5Limit + 1, Max20Limit, Max20Limit + 1}

StatusPercentages ==
  {0, WarningPct * PctScale - 1, WarningPct * PctScale,
   CriticalPct * PctScale - 1, CriticalPct * PctScale, 100 * PctScale}

\* TOKENS_LIMIT entries: each limit at one percentage, each percentage at one limit
WideQuotaLimits ==
  { [type |-> "TOKENS_LIMIT", usage |-> u, currentValue |-> 500,
     remaining |-> u - 500, percentage |-> 50 * PctScale] : u \in PlanLimits }
    \cup { [type |-> "TOKENS_LIMIT", usage |-> 1000, currentValue |-> 500,
            remaining |-> 500, percentage |-> p] : p \in StatusPercentages }

WideQuotaOutcomes ==
  { FetchQuotaLimit([net |-> "ok", status |-> 200, json |-> TRUE, success |-> TRUE,
                     limits |-> Some(<<TimeLimit, l>>)]) : l \in WideQuotaLimits }
    \cup {FetchQuotaLimit([net |-> "error"])}

\* settings that select a plan, with or without the data source
PlanSettings ==
  { [dataSource |-> d, menuBarDisplayMode |-> None, menuBarCostSource |-> None,
     plan |-> Some(p)] : d \in {None, Some("zai")}, p \in Plans }

InitResponses == InitApp({TRUE}) /\ settingsFile = ZaiFile

NextResponses ==
  \/ Initialize(LoadSettings(settingsFile)[2])
  \/ IpcGetUsageStats
  \/ \E settings \in PlanSettings : IpcSaveSettings(settings)
  \/ \E task \in BagToSet(tasks), got \in WideQuotaOutcomes : QuotaReply(task, got)
  \/ \E task \in BagToSet(tasks), got \in ModelOutcomes : ModelReply(task, got)

SpecResponses == InitResponses /\ [][NextResponses]_vars

(***************************************************************************)
(* SpecModes: the tray with the three display modes and the toggle timer,  *)
(* z.ai being the data source throughout.                                  *)
(***************************************************************************)
ModeFiles ==
  { JsonFile([DefaultSettings EXCEPT !.dataSource = Some("zai"),
                                     !.menuBarDisplayMode = Some(mode)]) :
      mode \in DisplayModes }

\* settings that select a display mode
ModeSettings ==
  { [dataSource |-> None, menuBarDisplayMode |-> Some(mode), menuBarCostSource |-> None] :
      mode \in DisplayModes }

InitModes == InitApp({TRUE}) /\ settingsFile \in ModeFiles

NextModes ==
  \/ Initialize(LoadSettings(settingsFile)[2])
  \/ PollTick
  \/ DisplayToggle
  \/ \E settings \in ModeSettings : IpcSaveSettings(settings)
  \/ \E task \in BagToSet(tasks), got \in QuotaOutcomes : QuotaReply(task, got)
  \/ \E task \in BagToSet(tasks), got \in ModelOutcomes : ModelReply(task, got)

SpecModes == InitModes /\ [][NextModes]_vars

(***************************************************************************)
(* SpecSettings: the settings service with every kind of settings file,    *)
(* and the handlers that read and write the file.  No key is set: the      *)
(* z.ai service answers with mock stats.                                   *)
(***************************************************************************)
\* load-settings
IpcLoadSettings ==
  /\ phase = "running"
  /\ ev' = Ev("load-settings", 0, <<Ret("settings", LoadSettings(settingsFile))>>)
  /\ UNCHANGED <<clock, settingsFile, zaiVars, appVars, tasks, started, forced>>

\* what a field of a JSON object may hold: null or a value
FieldValues ==
  [dataSource |-> {None, Some("zai")},
   menuBarDisplayMode |-> {None, Some("percentage")},
   menuBarCostSource |-> {Some("sessionWindow")},
   plan |-> {Some("Pro")},
   resetHour |-> {None, Some(5)}]

\* the JSON objects: any of the fields, each with one of its values
JsonObjects ==
  UNION { { [k \in D |-> f[k]] :
              f \in [dataSource : FieldValues.dataSource,
                     menuBarDisplayMode : FieldValues.menuBarDisplayMode,
                     menuBarCostSource : FieldValues.menuBarCostSource,
                     plan : FieldValues.plan,
                     resetHour : FieldValues.resetHour] } :
          D \in SUBSET FieldNames }

SettingsFiles == {Missing, Unreadable, Unparsable} \cup { JsonFile(obj) : obj \in JsonObjects }

InitSettings == InitApp({FALSE}) /\ settingsFile \in SettingsFiles

NextSettings ==
  \/ Initialize(LoadSettings(settingsFile)[2])
  \/ IpcLoadSettings
  \/ IpcSaveSettingsFails
  \/ \E settings \in SettingsInputs({"zai"}, {"percentage"}, {"today"}) :
       IpcSaveSettings(settings)
  \/ \E task \in BagToSet(tasks), ok \in BOOLEAN : CcusageSettle(task, ok)

SpecSettings == InitSettings /\ [][NextSettings]_vars

(***************************************************************************)
(* What the properties observe.                                            *)
(***************************************************************************)
\* the requests of a suspended call that are under way
InFlightOf(task) ==
  (IF task.q = Pending THEN 1 ELSE 0) + (IF task.m = Pending THEN 1 ELSE 0)

RECURSIVE SumInFlight(_, _)
SumInFlight(ts, S) ==
  IF S = {} THEN 0
  ELSE LET task == CHOOSE t \in S : TRUE
       IN ts[task] * InFlightOf(task) + SumInFlight(ts, S \ {task})

\* the HTTP requests under way
InFlightIn(ts) == SumInFlight(ts, BagToSet(ts))
InFlight == InFlightIn(tasks)

\* the steps that begin with a getUsageStats call on the service state as the
\* step finds it
CallingOps == {"startup", "poll", "get-usage-stats", "refresh-data"}

\* the stats of the last exchange in which both requests succeeded
LastFetched == MapZaiToUsageStats(lastQuotaData[1], lastModelUsageData[1])

(***************************************************************************)
(* C1                                                                      *)
(***************************************************************************)
\* C1: a getUsageStats call made while cachedStats is set and less than
\* 30000 ms have passed since lastUpdate returns cachedStats and sends no
\* request; a call made with a key when 30000 ms or more have passed sends
\* the two requests.
C1_CacheFor30s ==
  [][ (ev'.op \in CallingOps /\ dataSource = "zai") =>
        IF cachedStats # None /\ clock - lastUpdate < CACHE_DURATION
        THEN /\ ev'.issued = 0
             /\ ev'.rets # <<>>
             /\ \A i \in DOMAIN ev'.rets : ev'.rets[i].got = Ok(cachedStats[1])
             /\ UNCHANGED <<zaiVars, tasks>>
        ELSE apiKey => (ev'.issued = 2 /\ ev'.rets = <<>>) ]_vars

\* a call is answered from a cache that is 15 s old
C1_Witness ==
  /\ ev.op = "get-usage-stats"
  /\ ev.issued = 0
  /\ cachedStats # None
  /\ clock - lastUpdate = TickMs
  /\ ev.rets = <<Ret("cache", Ok(cachedStats[1]))>>

C3_CacheBeforeMock ==
  [][ ev'.op = "catch" =>
        /\ ev'.rets # <<>>
        /\ IF cachedStats # None
           THEN ev'.rets[1].got = Ok(cachedStats[1])
           ELSE \E tok \in MockTokens : ev'.rets[1].got = Ok(GetMockStats(tok)) ]_vars

\* a failed call has resolved with the stats another call had cached
C3_Witness ==
  /\ ev.op = "catch"
  /\ cachedStats # None
  /\ ev.rets # <<>>
  /\ ev.rets[1].got = Ok(cachedStats[1])
  /\ \A tok \in MockTokens : cachedStats[1] # GetMockStats(tok)

(***************************************************************************)
(* C4                                                                      *)
(***************************************************************************)
\* C4: once an exchange has succeeded, a call whose request fails resolves
\* with the last stats fetched, whatever was called in between.
C4_LastKnownData ==
  (ev.op = "catch" /\ lastQuotaData # None /\ ev.rets # <<>>)
    => ev.rets[1].got = Ok(LastFetched)

(***************************************************************************)
(* C5                                                                      *)
(***************************************************************************)
\* C5 as stated: at most one request is under way at any time.
C5_OneInFlight == InFlight <= 1

\* C5: a getUsageStats call sends its two requests together, and calls
\* overlap: the requests under way are at most two for each call suspended
\* so far.
C5_TwoPerCall == InFlight <= 2 * started

\* two calls overlap, the two requests of each under way
C5_Witness == started = 2 /\ InFlight = 4

(***************************************************************************)
(* C6                                                                      *)
(***************************************************************************)
\* the stats the getUsageStats calls of the last step returned
Returned == { ev.rets[i].got[2] : i \in { j \in DOMAIN ev.rets : ev.rets[j].got[1] = "ok" } }

IsMock(stats) == \E tok \in MockTokens : stats = GetMockStats(tok)

\* C6 as stated: every stats returned has tokensRemaining = tokenLimit - tokensUsed.
C6_RemainingIsLimitMinusUsed ==
  \A s \in Returned : s.tokensRemaining = s.tokenLimit - s.tokensUsed

\* C6: stats mapped from a response carry the response's usage, currentValue
\* and remaining as they came, and mock stats have
\* tokensRemaining = tokenLimit - tokensUsed: the equation holds for mapped
\* stats exactly when the response's remaining = usage - currentValue.
C6_RemainingAsReceived ==
  /\ \A s \in Returned :
       \/ IsMock(s) /\ s.tokensRemaining = s.tokenLimit - s.tokensUsed
       \/ \E l \in QuotaLimits : /\ s.tokenLimit = l.usage
                                 /\ s.tokensUsed = l.currentValue
                                 /\ s.tokensRemaining = l.remaining
  /\ ev.op = "fetched" =>
       /\ ev.rets[1].got[2].tokenLimit = lastQuotaData[1].usage
       /\ ev.rets[1].got[2].tokensUsed = lastQuotaData[1].currentValue
       /\ ev.rets[1].got[2].tokensRemaining = lastQuotaData[1].remaining

\* a call has returned stats of a response whose remaining is not usage - currentValue
C6_Witness ==
  /\ ev.op = "fetched"
  /\ lastQuotaData[1].remaining # lastQuotaData[1].usage - lastQuotaData[1].currentValue
  /\ ev.rets[1].got[2].tokensRemaining = lastQuotaData[1].remaining

(***************************************************************************)
(* C7                                                                      *)
(***************************************************************************)
\* percentageUsed = tokensUsed / tokenLimit * 100, in units of 1/PctScale
\* percent; the limits of the model are multiples of 100
IsPercentageOf(pct, used, limit) == pct * (limit \div 100) = used * PctScale

\* C7 as stated: every stats returned has percentageUsed = tokensUsed / tokenLimit * 100.
C7_PercentageIsUsedOverLimit ==
  \A s \in Returned : IsPercentageOf(s.percentageUsed, s.tokensUsed, s.tokenLimit)

\* C7: stats mapped from a response carry the response's percentage as it
\* came, and mock stats have percentageUsed = tokensUsed / tokenLimit * 100.
C7_PercentageAsReceived ==
  /\ \A s \in Returned :
       \/ IsMock(s) /\ IsPercentageOf(s.percentageUsed, s.tokensUsed, s.tokenLimit)
       \/ \E l \in QuotaLimits : /\ s.tokenLimit = l.usage
                                 /\ s.tokensUsed = l.currentValue
                                 /\ s.percentageUsed = l.percentage
  /\ ev.op = "fetched" => ev.rets[1].got[2].percentageUsed = lastQuotaData[1].percentage

\* a call has returned stats of a response whose percentage is not currentValue / usage * 100
C7_Witness ==
  /\ ev.op = "fetched"
  /\ ~IsPercentageOf(lastQuotaData[1].percentage, lastQuotaData[1].currentValue,
                     lastQuotaData[1].usage)
  /\ ev.rets[1].got[2].percentageUsed = lastQuotaData[1].percentage

(***************************************************************************)
(* C8                                                                      *)
(***************************************************************************)
\* a step in which a request of a call failed: the call sends nothing again
\* (what is sent is sent by the calls the step goes on to make), and neither
\* lastUpdate nor cachedStats changes
FailureIsFinal ==
  ev'.op = "catch" =>
    /\ InFlightIn(tasks') = InFlight - 1 + ev'.issued
    /\ UNCHANGED <<lastUpdate, cachedStats>>

TrayUpdates == { task \in BagToSet(tasks) : task.op \in {"tray", "refresh"} }

\* C9: when no tray update is under way, cachedMenuBarData is data of the
\* service dataSource selects (or null, when that service's call rejected).
C9_MenuBarDataOfCurrentSource ==
  (TrayUpdates = {} /\ cachedMenuBarData # None)
    => cachedMenuBarData[1].source = GetActiveService(dataSource)

(***************************************************************************)
(* C10                                                                     *)
(***************************************************************************)
\* C10: refresh-data with z.ai selected and a key sends the two requests and
\* returns nothing from the cache.
C10_RefreshFetchesFresh ==
  (ev.op = "refresh-data" /\ dataSource = "zai" /\ apiKey)
    => (ev.issued = 2 /\ ev.rets = <<>>)

(***************************************************************************)
(* C11                                                                     *)
(***************************************************************************)
\* C11: the first getUsageStats call that begins after updateConfiguration
\* has run, with a key, sends the requests: it returns nothing from the cache.
C11_ConfigurationForcesRefresh ==
  [][ (forced /\ apiKey /\ CallStarted(ev')) =>
        \A i \in DOMAIN ev'.rets : ev'.rets[i].how # "cache" ]_vars

StoredPlan == LoadSettings(settingsFile)[2].plan[1]

\* C13: the currentPlan of stats mapped from a response is 'Pro' iff
\* tokenLimit <= 7000, 'Max5' iff 7000 < tokenLimit <= 35000, 'Max20' iff
\* 35000 < tokenLimit <= 140000 and 'Custom' otherwise, whatever plan the
\* settings select.
C13_PlanFromLimit ==
  \A s \in Returned :
    ~IsMock(s) =>
      /\ s.currentPlan = "Pro" <=> s.tokenLimit <= 7000
      /\ s.currentPlan = "Max5" <=> (7000 < s.tokenLimit /\ s.tokenLimit <= 35000)
      /\ s.currentPlan = "Max20" <=> (35000 < s.tokenLimit /\ s.tokenLimit <= 140000)
      /\ s.currentPlan = "Custom" <=> s.tokenLimit > 140000

\* stats of a response with a limit of exactly 35000 are returned while the
\* settings select another plan
C13_Witness ==
  /\ ev.op = "fetched"
  /\ ev.rets[1].got[2].tokenLimit = 35000
  /\ ev.rets[1].got[2].currentPlan = "Max5"
  /\ StoredPlan = "Max20"

(***************************************************************************)
(* C14                                                                     *)
(***************************************************************************)
\* the form of a tray title: "pct", "cost", "dash" or "none"
Form(title) == title[1]

NoCost(daily) == \A i \in DOMAIN daily : daily[i].totalCost = 0

\* C14: with z.ai as the data source, every stats returned has totalCost 0 in
\* today and in every entry of thisWeek and thisMonth, the menu bar data has
\* cost 0, and a tray title in the cost form shows 0.
C14_CostIsZero ==
  /\ \A s \in Returned :
       s.today.totalCost = 0 /\ NoCost(s.thisWeek) /\ NoCost(s.thisMonth)
  /\ cachedMenuBarData # None => cachedMenuBarData[1].cost = 0
  /\ Form(trayTitle) = "cost" => trayTitle[2] = 0

\* the tray shows the cost form for stats mapped from a response with daily usage
C14_Witness ==
  /\ Form(trayTitle) = "cost"
  /\ trayTitle[2] = 0
  /\ ev.op = "fetched"
  /\ ev.rets[1].got[2].thisWeek # <<>>
  /\ NoCost(ev.rets[1].got[2].thisWeek)

(***************************************************************************)
(* C15                                                                     *)
(***************************************************************************)
\* the form the mode asks for
FormOf(mode, showPct) ==
  IF mode = "percentage" THEN "pct"
  ELSE IF mode = "cost" THEN "cost"
  ELSE IF showPct THEN "pct" ELSE "cost"

\* a step of the toggle timer, and a save-settings step that changes the mode
ToggleTick == showPercentage' # showPercentage
ModeChange == ev'.op = "save-settings" /\ menuBarDisplayMode' # menuBarDisplayMode

\* a title written from cached data in the percentage mode has the percentage
\* form, and in the cost mode the cost form
WrittenInMode ==
  (trayTitle' # trayTitle /\ Form(trayTitle') \in {"pct", "cost"}) =>
    Form(trayTitle') = FormOf(menuBarDisplayMode', showPercentage')

\* C15 as stated: every toggle tick flips the title between the two forms,
\* titles are written in the form of the mode, and every mode change rewrites
\* the title in the new mode.
C15_TitleFollowsMode ==
  [][ /\ ToggleTick => /\ Form(trayTitle') \in {"pct", "cost"}
                       /\ Form(trayTitle') # Form(trayTitle)
      /\ WrittenInMode
      /\ ModeChange => Form(trayTitle') = FormOf(menuBarDisplayMode', showPercentage') ]_vars

\* C15: while cachedMenuBarData is set, every toggle tick flips the title
\* between the two forms and every mode change rewrites the title in the new
\* mode; while it is null, a toggle tick and a mode change leave the title as
\* it is.  Titles are written in the form of the mode.
C15_TitleFollowsModeOfData ==
  [][ /\ (ToggleTick /\ cachedMenuBarData # None) =>
           /\ Form(trayTitle') \in {"pct", "cost"}
           /\ Form(trayTitle') # Form(trayTitle)
      /\ (ToggleTick /\ cachedMenuBarData = None) => trayTitle' = trayTitle
      /\ WrittenInMode
      /\ (ModeChange /\ cachedMenuBarData # None) =>
           Form(trayTitle') = FormOf(menuBarDisplayMode', showPercentage')
      /\ (ModeChange /\ cachedMenuBarData = None) => trayTitle' = trayTitle ]_vars

\* in the alternate mode a toggle tick has put the title into the cost form
C15_Witness ==
  /\ menuBarDisplayMode = "alternate"
  /\ ~showPercentage
  /\ cachedMenuBarData # None
  /\ Form(trayTitle) = "cost"
  /\ ev = NoEv

(***************************************************************************)
(* C16                                                                     *)
(***************************************************************************)
\* the field k as the file stores it, when the file parses and has the field
Stored(k) ==
  IF settingsFile[1] = "json" /\ k \in DOMAIN settingsFile[2]
  THEN Some(settingsFile[2][k])
  ELSE None

\* C16: loadSettings resolves, never rejects, and each field of its record is
\* the value the file stores for it when the file exists, parses and has the
\* field, and otherwise the default: dataSource 'ccusage', menuBarDisplayMode
\* 'alternate', menuBarCostSource 'today', plan 'auto', resetHour 0.
C16_LoadSettingsDefaults ==
  ev.op = "load-settings" =>
    /\ ev.rets[1].got[1] = "ok"
    /\ LET loaded == ev.rets[1].got[2]
           default == [dataSource |-> "ccusage", menuBarDisplayMode |-> "alternate",
                       menuBarCostSource |-> "today"]
       IN /\ DOMAIN loaded = FieldNames
          /\ \A k \in {"dataSource", "menuBarDisplayMode", "menuBarCostSource"} :
               loaded[k] = IF Stored(k) # None THEN Stored(k)[1] ELSE Some(default[k])
          /\ loaded.plan = IF Stored("plan") # None THEN Stored("plan")[1] ELSE Some("auto")
          /\ loaded.resetHour =
               IF Stored("resetHour") # None THEN Stored("resetHour")[1] ELSE Some(0)

\* loadSettings has read a file that stores the data source and not the plan
C16_Witness ==
  /\ ev.op = "load-settings"
  /\ Stored("dataSource") = Some(Some("zai"))
  /\ Stored("plan") = None
  /\ ev.rets[1].got[2].dataSource = Some("zai")
  /\ ev.rets[1].got[2].plan = Some("auto")

(***************************************************************************)
(* C17                                                                     *)
(***************************************************************************)
fetchVars == <<lastUpdate, lastQuotaData, lastModelUsageData>>

\* C17: a call of which a request fails, whatever the other request does,
\* leaves cachedStats, lastUpdate, lastQuotaData and lastModelUsageData as
\* they are, and so does a request that succeeds while the other is under
\* way; a getUsageStats call changes them only when both requests have
\* succeeded, and then it sets all four.
C17_PartialFailureUpdatesNothing ==
  [][ /\ ev'.op = "catch" =>
           UNCHANGED <<cachedStats, lastUpdate, lastQuotaData, lastModelUsageData>>
      /\ (InFlightIn(tasks') < InFlight /\ ev'.op = "none") =>
           UNCHANGED <<cachedStats, lastUpdate, lastQuotaData, lastModelUsageData>>
      /\ (fetchVars' # fetchVars \/ (cachedStats' # cachedStats /\ cachedStats' # None)) =>
           /\ ev'.op = "fetched"
           /\ lastQuotaData' # None /\ lastModelUsageData' # None
           /\ cachedStats' = Some(MapZaiToUsageStats(lastQuotaData'[1], lastModelUsageData'[1]))
           /\ \E task \in BagToSet(tasks) : lastUpdate' = task.now ]_vars

\* the quota request of a call has succeeded and its model-usage request has
\* then failed: nothing is stored
C17_Witness ==
  /\ ev.op = "catch"
  /\ lastQuotaData = None
  /\ lastModelUsageData = None
  /\ cachedStats = None
  /\ lastUpdate = 0
  /\ InFlight = 0
  /\ started = 1

(***************************************************************************)
(* C18                                                                     *)
(***************************************************************************)
\* C18 as stated: lastUpdate never decreases, so that the cache holds the
\* result and the time of the successful call that began last.
C18_LastUpdateNeverDecreases == [][lastUpdate' >= lastUpdate]_vars
====
